---- MODULE Spec2Model ----
(***************************************************************************)
(* Model of the coding-agent server (src/unnamed/part_000): the project    *)
(* listing, the project objects, the process map, the port counter, the    *)
(* on-disk mirror, and the request handlers as they interleave on the      *)
(* single-threaded event loop.  A handler runs from one suspension point   *)
(* (an await on I/O, a timer, a child's exit) to the next as one step.     *)
(* Continuations of an already settled promise are microtasks: they are    *)
(* queued in mq and drained, in order, before any other event is taken.    *)
(***************************************************************************)
EXTENDS Integers, Sequences, FiniteSets, TLC

\* ---------------------------------------------------------------- bounds
MaxRuns == 2            \* runs that reach the port assignment
MaxChunks == 3          \* chunks kept in a project's lastOutput
MaxMessages == 3        \* messages in a conversation when a chat is accepted
MaxFetches == 2         \* fetches of the client in flight
MaxTimers == 2          \* run timers of the client pending

FirstPort == 3001       \* let nextPort = 3001

Ids   == {1, 2}         \* the project ids generateId hands out
Slots == {1, 2}         \* the requests that may be suspended at the same time
ConvIds == {1, 2}       \* the conversation ids generateId hands out
PortLimit == FirstPort + MaxRuns
Ports == FirstPort..(PortLimit - 1)

Paths     == {"index.js", "main.ts", "util.js", "main.py", "leak.txt"}   \* the files on disk
Dirs      == Ids \cup {0}   \* ./projects/<id>, and 0: ./projects itself
EditPaths == {"index.js", "main.ts"}              \* the paths clients read and edit
Contents  == {"v1", "v2"}                         \* the contents clients save

VARIABLES
  projects,          \* the listing: project ids, most recent first
  proj,              \* the project objects by id (kept after deletion: handlers hold references)
  runningProcesses,  \* Map<string, Deno.ChildProcess>: id -> process (0: no entry)
  nextPort,          \* the port counter
  procs,             \* the child spawned with PORT = port, by port
  disk,              \* directory -> file -> content ("" : no such file)
  idCount,           \* project ids generated so far
  reqs,              \* the suspended requests, one per slot
  waitq,             \* slots awaiting process.status, in await order
  mq,                \* microtask queue: slots whose awaited promise is settled
  last,              \* the response produced by the latest step (NoResp: none)
  portLog,           \* history: the ports assigned by runs, in order
  conversations,     \* the conversation store, most recent first
  client,            \* the browser client: its current project, isRunning, its position
  calc               \* a pure function of the server applied to an input, and its result

vars == <<projects, proj, runningProcesses, nextPort, procs, disk, idCount,
          reqs, waitq, mq, last, portLog, conversations, client, calc>>

\* ---------------------------------------------------------------- values
NoProject == [language |-> "", status |-> "none", files |-> <<>>, port |-> 0,
              lastOutput |-> <<>>]
Idle      == [kind |-> "idle", id |-> 0, pc |-> "", port |-> 0, proc |-> 0,
              files |-> <<>>, i |-> 0, at |-> 0, conv |-> 0, code |-> 0,
              command |-> "", args |-> ""]
NoProc    == [proj |-> 0, state |-> "none", captured |-> FALSE, ended |-> {}]
NoClient  == [id |-> 0, conv |-> 0, isRunning |-> FALSE, timers |-> <<>>, fetches |-> <<>>]
NoCalc    == [fn |-> "none", arg |-> <<>>, res |-> <<>>]
NoResp    == [kind |-> "none", id |-> 0, code |-> 0, err |-> "", port |-> 0, n |-> 0,
              out |-> ""]

InListing(id) == \E k \in 1..Len(projects) : projects[k] = id

\* A response of the given request kind; n counts how many times in a row
\* (at most 2) the same response followed itself with no step in between.
RespOut(kind, id, code, err, port, out) ==
  LET r == [kind |-> kind, id |-> id, code |-> code, err |-> err, port |-> port, n |-> 1,
            out |-> out]
  IN  IF [last EXCEPT !.n = 1] = r THEN [r EXCEPT !.n = 2] ELSE r

Resp(kind, id, code, err, port) == RespOut(kind, id, code, err, port, "")

FreeSlots == {s \in Slots : reqs[s].kind = "idle"}
FreeSlot  == CHOOSE s \in FreeSlots : \A t \in FreeSlots : s <= t

Init ==
  /\ projects = <<>>
  /\ proj = [id \in Ids |-> NoProject]
  /\ runningProcesses = [id \in Ids |-> 0]
  /\ nextPort = FirstPort
  /\ procs = [p \in Ports |-> NoProc]
  /\ disk = [d \in Dirs |-> [p \in Paths |-> ""]]
  /\ idCount = 0
  /\ reqs = [s \in Slots |-> Idle]
  /\ waitq = <<>>
  /\ mq = <<>>
  /\ last = NoResp
  /\ portLog = <<>>
  /\ conversations = <<>>
  /\ client = NoClient
  /\ calc = NoCalc

\* ------------------------------------------------------- shared fragments
Req(kind, id, pc) == [Idle EXCEPT !.kind = kind, !.id = id, !.pc = pc]

\* The fetch of the client that the request in slot s answers, if any.
FetchOf(s) ==
  {k \in 1..Len(client.fetches) :
     client.fetches[k].phase = "server" /\ client.fetches[k].slot = s}

\* The response r on its way to the client: status, project and, for a
\* chat, the files (shouldUpdate is files.length > 0).
Done(s, r) ==
  [Idle EXCEPT !.kind = "done", !.id = r.id, !.code = r.code, !.files = reqs[s].files]

\* The request in slot s answers r and leaves; a response to the client
\* the model follows stays in the slot until it is delivered.
Finish(s, r) ==
  /\ reqs' = [reqs EXCEPT ![s] = IF FetchOf(s) # {} THEN Done(s, r) ELSE Idle]
  /\ last' = r

\* A handler that ran to its end without suspending answers r.
Answer(r) ==
  /\ reqs' = reqs
  /\ last' = r

Waiting(p) == SelectSeq(waitq, LAMBDA s : reqs[s].proc = p)
NotWaiting(p) == SelectSeq(waitq, LAMBDA s : reqs[s].proc # p)

\* Runs that passed the lookup and have not taken their port yet.
PendingRuns == {s \in Slots : reqs[s].kind = "run" /\ reqs[s].pc \in {"stopwait", "assign"}}

\* const port = nextPort++ leaves the counter one higher.
NextPortAfter_Reuse(n) == n
NextPortAfter(n) == n + 1

\* process.kill('SIGTERM') throws once the child has terminated.
KillThrows(p) == procs[p].state = "exited"

\* ----------------------------------------------------------- buildProject
\* What the output says about the installer, by language and by how the
\* installer ended ("ok", "failed": non-zero exit, "nospawn": output() rejected).
\* The python branch does not read the exit status.
InstallReport(language, res) ==
  IF res = "nospawn" THEN "no manifest"
  ELSE IF language = "python" THEN "installed"
  ELSE IF res = "ok" THEN "installed" ELSE "install failed"

\* The end of the try block: project.status = 'created'; return output.
BuildDone(s, out) ==
  /\ proj' = [proj EXCEPT ![reqs[s].id].status = "created"]
  /\ Finish(s, RespOut("build", reqs[s].id, 200, "", 0, out))

\* POST /api/projects/:id/build up to its first suspension.
BuildStart(id) ==
  /\ mq = <<>>
  /\ UNCHANGED <<calc, client>>
  /\ FreeSlots # {}
  /\ IF ~InListing(id)
     THEN /\ Answer(Resp("build", id, 500, "Project not found", 0))
          /\ proj' = proj
     ELSE IF proj[id].language \in {"javascript", "typescript", "python"}
     THEN /\ proj' = [proj EXCEPT ![id].status = "building"]
          /\ reqs' = [reqs EXCEPT ![FreeSlot] = Req("build", id, "stat")]
          /\ last' = NoResp
     ELSE /\ proj' = [proj EXCEPT ![id].status = "created"]
          /\ Answer(RespOut("build", id, 200, "", 0, "nothing to install"))
  /\ UNCHANGED <<projects, runningProcesses, nextPort, procs, disk, idCount, conversations, waitq, mq,
                 portLog>>

\* Deno.stat of the manifest settled: the installer is started, or the
\* inner catch notes that there is no manifest and the build ends.
BuildStatDone(s, found) ==
  /\ mq = <<>>
  /\ UNCHANGED <<calc, client>>
  /\ reqs[s].kind = "build" /\ reqs[s].pc = "stat"
  /\ IF found
     THEN /\ reqs' = [reqs EXCEPT ![s].pc = "install"]
          /\ last' = NoResp
          /\ proj' = proj
     ELSE BuildDone(s, "no manifest")
  /\ UNCHANGED <<projects, runningProcesses, nextPort, procs, disk, idCount, conversations, waitq, mq,
                 portLog>>

\* installProcess.output() settled.
BuildInstallDone(s, res) ==
  /\ mq = <<>>
  /\ UNCHANGED <<calc, client>>
  /\ reqs[s].kind = "build" /\ reqs[s].pc = "install"
  /\ BuildDone(s, InstallReport(proj[reqs[s].id].language, res))
  /\ UNCHANGED <<projects, runningProcesses, nextPort, procs, disk, idCount, conversations, waitq, mq,
                 portLog>>

\* ------------------------------------------------------------- runProject
\* catch (error) { project.status = 'error'; throw error; }
SpawnFailed_KeepsStatus(pj, id) == pj
SpawnFailed(pj, id) == [pj EXCEPT ![id].status = "error"]

\* Other continuations are queued behind the one that is running.
OthersQueued == Len(mq) > 1

\* f.name.includes('index') || f.name.includes('main'), on the file names
\* of the model (the name is the last segment of the path).
IsMainName(path) == path \in {"index.js", "main.ts", "main.py"}

\* project.files.find(f => f.name.includes('index') || f.name.includes('main')):
\* the path of the first such file, "" when there is none.
MainFile(files) ==
  LET hits == SelectSeq(files, LAMBDA f : IsMainName(f.path))
  IN  IF hits = <<>> THEN "" ELSE hits[1].path

\* The command and its arguments, by language (the server does not run on
\* Windows). found: Deno.stat of package.json succeeded. The javascript
\* fallback takes the first file when no name has 'index' or 'main'; the
\* last branch does not.
RunCommand(pj, found) ==
  LET main  == MainFile(pj.files)
      first == IF main # "" THEN main
               ELSE IF pj.files # <<>> THEN pj.files[1].path ELSE "index.js"
  IN  CASE pj.language = "javascript" /\ found  -> [command |-> "sh", args |-> "-c npm start"]
        [] pj.language = "javascript" /\ ~found -> [command |-> "node", args |-> first]
        [] pj.language = "typescript" -> [command |-> "deno", args |-> "run --allow-net index.ts"]
        [] pj.language = "python"     -> [command |-> "python", args |-> "main.py"]
        [] OTHER -> [command |-> "node", args |-> IF main # "" THEN main ELSE "index.js"]

\* new Deno.Command(...).spawn(), the registration and the start of the
\* grace period; or the spawn throws and the catch sets status 'error'.
RunSpawn(s, id, port, pj, rp, cmd) ==
  \E ok \in BOOLEAN :
    IF ok
    THEN /\ procs' = [procs EXCEPT ![port] =
                        [proj |-> id, state |-> "running", captured |-> InListing(id),
                         ended |-> {}]]
         /\ runningProcesses' = [rp EXCEPT ![id] = port]
         /\ proj' = pj
         /\ reqs' = [reqs EXCEPT ![s] = [Req("run", id, "grace") EXCEPT
                                            !.port = port, !.command = cmd.command,
                                            !.args = cmd.args]]
         /\ last' = NoResp
    ELSE /\ procs' = procs
         /\ runningProcesses' = rp
         /\ proj' = SpawnFailed(pj, id)
         /\ IF OthersQueued
            THEN \* the handler's catch runs after the microtasks already queued
                 /\ reqs' = [reqs EXCEPT ![s] = Req("run", id, "throw")]
                 /\ last' = NoResp
            ELSE Finish(s, Resp("run", id, 500, "spawn failed", 0))

\* project.status = 'running'; const port = nextPort++; project.port = port;
\* a javascript project then awaits Deno.stat, the others spawn at once.
RunAssign(s, id, rp) ==
  LET port == nextPort
      pj   == [proj EXCEPT ![id].status = "running", ![id].port = port]
  IN  /\ nextPort' = NextPortAfter(nextPort)
      /\ portLog' = Append(portLog, port)
      /\ IF proj[id].language = "javascript"
         THEN /\ proj' = pj
              /\ runningProcesses' = rp
              /\ procs' = procs
              /\ reqs' = [reqs EXCEPT ![s] = [Req("run", id, "stat") EXCEPT !.port = port]]
              /\ last' = NoResp
         ELSE RunSpawn(s, id, port, pj, rp, RunCommand(pj[id], FALSE))

\* POST /api/projects/:id/run up to its first suspension.
RunRequest(id) ==
  /\ mq = <<>>
  /\ FreeSlots # {}
  /\ nextPort + Cardinality(PendingRuns) < PortLimit
  /\ UNCHANGED <<projects, disk, idCount, conversations, mq>>
  /\ LET s == FreeSlot
         p == runningProcesses[id]
     IN  IF ~InListing(id)
         THEN /\ Answer(Resp("run", id, 500, "Project not found", 0))
              /\ UNCHANGED <<proj, runningProcesses, nextPort, procs, waitq, portLog>>
         ELSE IF p # 0 /\ ~KillThrows(p)
         THEN \* stopProject: kill, then await process.status
              /\ procs' = [procs EXCEPT ![p].state = "signaled"]
              /\ reqs' = [reqs EXCEPT ![s] = [Req("run", id, "stopwait") EXCEPT !.proc = p]]
              /\ waitq' = Append(waitq, s)
              /\ last' = NoResp
              /\ UNCHANGED <<proj, runningProcesses, nextPort, portLog>>
         ELSE \* no entry, or kill threw and was logged: stopProject returns at once
              /\ RunAssign(s, id, runningProcesses)
              /\ UNCHANGED waitq

\* The same, sent by a client the model does not follow.
RunStart(id) == RunRequest(id) /\ UNCHANGED <<calc, client>>

\* Deno.stat(package.json) settled, either way: the command is chosen and spawned.
RunStatDone(s, found) ==
  /\ mq = <<>>
  /\ UNCHANGED <<calc, client>>
  /\ reqs[s].kind = "run" /\ reqs[s].pc = "stat"
  /\ RunSpawn(s, reqs[s].id, reqs[s].port, proj, runningProcesses,
              RunCommand(proj[reqs[s].id], found))
  /\ UNCHANGED <<projects, nextPort, disk, idCount, conversations, waitq, mq, portLog>>

\* A piece of text of lastOutput: a chunk read from the child, or the start
\* message with the port and the command line it names.
Text(chunk) == [text |-> chunk, port |-> 0, command |-> "", args |-> ""]

\* The 2000 ms timer fired: project.lastOutput = output, the message
\* 'Project started on port <port>, Command: <command> <args>', which
\* replaces what lastOutput held; runProject returns { output, port }.
StartMessage(port, command, args) ==
  <<[text |-> "started", port |-> port, command |-> command, args |-> args]>>

RunGraceDone(s) ==
  /\ mq = <<>>
  /\ UNCHANGED <<calc, client>>
  /\ reqs[s].kind = "run" /\ reqs[s].pc = "grace"
  /\ proj' = [proj EXCEPT ![reqs[s].id].lastOutput =
                                 StartMessage(reqs[s].port, reqs[s].command, reqs[s].args)]
  /\ Finish(s, Resp("run", reqs[s].id, 200, "", reqs[s].port))
  /\ UNCHANGED <<projects, runningProcesses, nextPort, procs, disk, idCount, conversations,
                 waitq, mq, portLog>>

\* A reader of the child's stdout or stderr got a chunk: it is appended to
\* the lastOutput of the project found when the capture was set up. The
\* readers look neither at the child's status nor at the process map: a
\* chunk can arrive after the child was signaled or reaped, as long as its
\* stream has not ended.
CaptureOutput(p, chunk) ==
  /\ mq = <<>>
  /\ UNCHANGED <<calc, client>>
  /\ procs[p].state # "none" /\ procs[p].captured
  /\ chunk \notin procs[p].ended
  /\ Len(proj[procs[p].proj].lastOutput) < MaxChunks
  /\ proj' = [proj EXCEPT ![procs[p].proj].lastOutput = Append(@, Text(chunk))]
  /\ last' = NoResp
  /\ UNCHANGED <<projects, runningProcesses, nextPort, procs, disk, idCount, conversations, reqs,
                 waitq, mq, portLog>>

\* reader.read() gave done: the loop of that stream's reader breaks, and no
\* later chunk of the stream is appended. The child's end does not end its
\* streams (a descendant may hold the pipe), and a running child may close
\* them.
ReadDone(p, stream) ==
  /\ mq = <<>>
  /\ UNCHANGED <<calc, client>>
  /\ procs[p].state # "none" /\ procs[p].captured
  /\ stream \notin procs[p].ended
  /\ procs' = [procs EXCEPT ![p].ended = @ \cup {stream}]
  /\ last' = NoResp
  /\ UNCHANGED <<projects, proj, runningProcesses, nextPort, disk, idCount, conversations, reqs,
                 waitq, mq, portLog>>

\* ------------------------------------------------------------ stopProject
\* No entry in the map: the if is skipped, status = 'stopped', 'Project stopped'.
StopNoProcess_KeepsStatus(id) ==
  /\ proj' = proj
  /\ Answer(Resp("stop", id, 200, "", 0))
StopNoProcess_Throws(id) ==
  /\ proj' = proj
  /\ Answer(Resp("stop", id, 500, "Project is not running", 0))
StopNoProcess(id) ==
  /\ proj' = [proj EXCEPT ![id].status = "stopped"]
  /\ Answer(Resp("stop", id, 200, "", 0))

\* kill threw: the catch logs it and the entry stays; status = 'stopped'.
StopKillFailed(id) ==
  /\ proj' = [proj EXCEPT ![id].status = "stopped"]
  /\ Answer(Resp("stop", id, 200, "", 0))

\* POST /api/projects/:id/stop up to its first suspension.
StopRequest(id) ==
  /\ mq = <<>>
  /\ FreeSlots # {}
  /\ UNCHANGED <<projects, runningProcesses, nextPort, disk, idCount, conversations, mq, portLog>>
  /\ LET s == FreeSlot
         p == runningProcesses[id]
     IN  IF ~InListing(id)
         THEN /\ Answer(Resp("stop", id, 500, "Project not found", 0))
              /\ UNCHANGED <<proj, procs, waitq>>
         ELSE IF p # 0 /\ ~KillThrows(p)
         THEN /\ procs' = [procs EXCEPT ![p].state = "signaled"]
              /\ reqs' = [reqs EXCEPT ![s] = [Req("stop", id, "wait") EXCEPT !.proc = p]]
              /\ waitq' = Append(waitq, s)
              /\ last' = NoResp
              /\ UNCHANGED proj
         ELSE /\ IF p = 0 THEN StopNoProcess(id) ELSE StopKillFailed(id)
              /\ UNCHANGED <<procs, waitq>>

\* The same, sent by a client the model does not follow.
StopStart(id) == StopRequest(id) /\ UNCHANGED <<calc, client>>

\* ---------------------------------------------------------- child process
\* The child exits (on its own or after the signal): process.status settles
\* and every handler awaiting it is queued, in await order.
ProcExit(p) ==
  /\ mq = <<>>
  /\ UNCHANGED <<calc, client>>
  /\ procs[p].state \in {"running", "signaled"}
  /\ procs' = [procs EXCEPT ![p].state = "exited"]
  /\ mq' = Waiting(p)
  /\ waitq' = NotWaiting(p)
  /\ last' = NoResp
  /\ UNCHANGED <<projects, proj, runningProcesses, nextPort, disk, idCount, conversations, reqs, portLog>>

\* ------------------------------------------------------------- microtasks
\* The head of the microtask queue resumes.
Drain ==
  /\ mq # <<>>
  /\ UNCHANGED <<calc, client>>
  /\ LET s  == Head(mq)
         r  == reqs[s]
         id == r.id
     IN  /\ UNCHANGED <<projects, disk, idCount, conversations, waitq>>
         /\ CASE r.kind = "stop" /\ r.pc = "wait" ->
                   \* this.runningProcesses.delete(projectId); status = 'stopped';
                   \* stopProject returns and the handler resumes one tick later
                   /\ runningProcesses' = [runningProcesses EXCEPT ![id] = 0]
                   /\ proj' = [proj EXCEPT ![id].status = "stopped"]
                   /\ reqs' = [reqs EXCEPT ![s] = Req("stop", id, "answer")]
                   /\ last' = NoResp
                   /\ mq' = Append(Tail(mq), s)
                   /\ UNCHANGED <<nextPort, procs, portLog>>
              [] r.kind = "stop" /\ r.pc = "answer" ->
                   \* the handler of the stop route assigns the response body
                   /\ Finish(s, Resp("stop", id, 200, "", 0))
                   /\ mq' = Tail(mq)
                   /\ UNCHANGED <<proj, runningProcesses, nextPort, procs, portLog>>
              [] r.kind = "run" /\ r.pc = "stopwait" ->
                   \* the same inside runProject; runProject resumes one tick later
                   /\ runningProcesses' = [runningProcesses EXCEPT ![id] = 0]
                   /\ proj' = [proj EXCEPT ![id].status = "stopped"]
                   /\ reqs' = [reqs EXCEPT ![s] = Req("run", id, "assign")]
                   /\ last' = NoResp
                   /\ mq' = Append(Tail(mq), s)
                   /\ UNCHANGED <<nextPort, procs, portLog>>
              [] r.kind = "run" /\ r.pc = "assign" ->
                   /\ RunAssign(s, id, runningProcesses)
                   /\ mq' = IF reqs'[s].pc = "throw" THEN Append(Tail(mq), s) ELSE Tail(mq)
              [] r.kind = "run" /\ r.pc = "throw" ->
                   \* the catch of the run route assigns the error response
                   /\ Finish(s, Resp("run", id, 500, "spawn failed", 0))
                   /\ mq' = Tail(mq)
                   /\ UNCHANGED <<proj, runningProcesses, nextPort, procs, portLog>>

\* ------------------------------------------------- DELETE /api/projects/:id
RemoveId(seq, id) == SelectSeq(seq, LAMBDA x : x # id)

\* projects = projects.filter(...); stopProject(projectId) then looks the
\* project up in the filtered listing, rejects with 'Project not found',
\* and the rejection is logged by .catch(console.error).
DeleteProject(id) ==
  /\ mq = <<>>
  /\ UNCHANGED <<calc, client>>
  /\ projects' = RemoveId(projects, id)
  /\ Answer(Resp("delete", id, 200, "", 0))
  /\ UNCHANGED <<proj, runningProcesses, nextPort, procs, disk, idCount, conversations, waitq, mq, portLog>>

\* --------------------------------------------------------- response parser
\* lang.toLowerCase() on the tags the model draws.
ToLower(tag) ==
  CASE tag = "JS" -> "js"
    [] tag = "TS" -> "ts"
    [] tag = "Py" -> "py"
    [] tag = "HTML" -> "html"
    [] tag = "MD" -> "md"
    [] tag = "Markdown" -> "markdown"
    [] OTHER -> tag

\* What langMap[key] finds on Object.prototype when langMap has no own
\* property key: a function or an object, both truthy, neither a string.
Inherited == {"constructor", "__proto__"}
InheritedValue(key) == IF key = "constructor" THEN "function Object" ELSE "[object Object]"
NotStrings == {InheritedValue(key) : key \in Inherited}

\* return langMap[lang.toLowerCase()] || 'text'
NormalizeLanguage(lang) ==
  LET l == ToLower(lang)
  IN  CASE l \in {"js", "javascript"} -> "javascript"
        [] l \in {"ts", "typescript"} -> "typescript"
        [] l \in {"py", "python"} -> "python"
        [] l = "json" -> "json"
        [] l = "html" -> "html"
        [] l = "css" -> "css"
        [] l = "md" -> "markdown"
        [] l \in Inherited -> InheritedValue(l)
        [] OTHER -> "text"

\* A response text is a sequence of atoms: the fence, the newline, the
\* colon, the blank, a word (a run of \w characters), or another run of
\* characters that are neither \w nor a newline.
Fence == "~~~"     \* stands for the three backquotes of a fence
NonWords == {Fence, "\n", ":", " ", ".", "/", "../", "++"}
IsWord(a) == a \notin NonWords
IsSpace(a) == a \in {" ", "\n"}

\* The atoms of the strings the model draws.
Atoms(str) ==
  CASE str = "" -> <<>>
    [] str = "index.js" -> <<"index", ".", "js">>
    [] str = "main.ts" -> <<"main", ".", "ts">>
    [] str = "util.js" -> <<"util", ".", "js">>
    [] str = "main.py" -> <<"main", ".", "py">>
    [] str = "leak.txt" -> <<"leak", ".", "txt">>
    [] str = "../leak.txt" -> <<"../", "leak", ".", "txt">>
    [] str = "c++" -> <<"c", "++">>
    [] OTHER -> <<str>>

RECURSIVE Join(_)
Join(atoms) == IF atoms = <<>> THEN "" ELSE Head(atoms) \o Join(Tail(atoms))

\* String.prototype.trim on a sequence of atoms.
RECURSIVE TrimLeft(_)
TrimLeft(atoms) ==
  IF atoms # <<>> /\ IsSpace(Head(atoms)) THEN TrimLeft(Tail(atoms)) ELSE atoms
RECURSIVE TrimRight(_)
TrimRight(atoms) ==
  IF atoms # <<>> /\ IsSpace(atoms[Len(atoms)])
  THEN TrimRight(SubSeq(atoms, 1, Len(atoms) - 1)) ELSE atoms
Trim(atoms) == TrimRight(TrimLeft(atoms))

\* The text the agent writes for a block, in the format the prompt asks
\* for: fence, [language]:[file path], the content, fence.  A block without a
\* path is a plain fenced block.
BlockText(b) ==
  <<Fence>> \o Atoms(b.lang) \o (IF b.path = "" THEN <<>> ELSE <<":">> \o Atoms(b.path))
    \o <<"\n">> \o Atoms(b.content) \o <<"\n", Fence, "\n", "\n">>

RECURSIVE BlocksText(_)
BlocksText(blocks) ==
  IF blocks = <<>> THEN <<>> ELSE BlockText(Head(blocks)) \o BlocksText(Tail(blocks))

\* The explanation, 'Files to update:', and the blocks.
ResponseText(blocks) == <<"Done", ".", "\n", "\n">> \o BlocksText(blocks)

\* The first position from i on that holds atom a; 0 when there is none.
IndexFrom(text, i, a) ==
  LET hits == {k \in i..Len(text) : text[k] = a}
  IN  IF hits = {} THEN 0 ELSE CHOOSE k \in hits : \A j \in hits : k <= j

\* (\w+)? : the words that directly follow position o, before position n.
WordRun(text, o, n) ==
  LET runs == {m \in 0..(n - 1 - o) : \A j \in 1..m : IsWord(text[o + j])}
  IN  CHOOSE m \in runs : \A j \in runs : j <= m

\* The loop over filePattern.exec from position i on.  A match is the first
\* fence, the rest of its line, and the text up to the next fence; the
\* search goes on after that fence.
RECURSIVE MatchFiles(_, _)
MatchFiles(text, i) ==
  LET o == IndexFrom(text, i, Fence)
      n == IF o = 0 THEN 0 ELSE IndexFrom(text, o + 1, "\n")
      c == IF n = 0 THEN 0 ELSE IndexFrom(text, n + 1, Fence)
  IN  IF c = 0 THEN <<>>
      ELSE LET w == WordRun(text, o, n)
               language    == IF w > 0 THEN Join(SubSeq(text, o + 1, o + w)) ELSE "text"
               p           == IF o + w + 1 < n /\ text[o + w + 1] = ":"
                              THEN o + w + 2 ELSE o + w + 1
               filePath    == Join(Trim(SubSeq(text, p, n - 1)))
               fileContent == Join(Trim(SubSeq(text, n + 1, c - 1)))
               rest        == MatchFiles(text, c + 1)
           IN  IF filePath # "" /\ fileContent # ""
               THEN <<[path |-> filePath, content |-> fileContent,
                       language |-> NormalizeLanguage(language)]>> \o rest
               ELSE rest

ParseFilesFromResponse(response) == MatchFiles(response, 1)

DetectPrimaryLanguage_First(files) ==
  IF files[1].language \in {"typescript", "javascript", "python"}
  THEN files[1].language ELSE "javascript"
DetectPrimaryLanguage(files) ==
  LET languages == {files[k].language : k \in 1..Len(files)}
  IN  IF "typescript" \in languages THEN "typescript"
      ELSE IF "javascript" \in languages THEN "javascript"
      ELSE IF "python" \in languages THEN "python"
      ELSE "javascript"

\* ------------------------------------------------------------ project store
\* project.files.findIndex(f => f.path === path): 0 when there is none.
FindIndex(files, path) ==
  LET hits == {k \in 1..Len(files) : files[k].path = path}
  IN  IF hits = {} THEN 0 ELSE CHOOSE k \in hits : \A j \in hits : k <= j

\* The loop body of the update branch, in memory.
Upsert_Append(files, f) == Append(files, f)
Upsert_Overwrite(files, f) == <<f>>
Upsert(files, f) ==
  LET k == FindIndex(files, f.path)
  IN  IF k > 0 THEN [files EXCEPT ![k] = f] ELSE Append(files, f)

\* Where the loop body puts a file: the index of the first entry with its
\* path, or one past the end.
Place(files, path) ==
  IF FindIndex(files, path) > 0 THEN FindIndex(files, path) ELSE Len(files) + 1

\* `${project.path}/${filePath}`: the directory and the file the joined
\* path names.  A leading '..' segment leaves the project's directory.
DirOf(id, path) == IF path = "../leak.txt" THEN 0 ELSE id
NameOf(path) == IF path = "../leak.txt" THEN "leak.txt" ELSE path

\* Deno.writeTextFile(`${project.path}/${path}`, content)
WriteDisk(id, path, content) ==
  [disk EXCEPT ![DirOf(id, path)][NameOf(path)] = content]

\* The ids generateId hands out are taken fresh: 1, 2, ...
GenerateId == idCount + 1

\* projects.unshift(project)
Unshift_Push(seq, id) == Append(seq, id)
Unshift(seq, id) == <<id>> \o seq

NewProject(files) ==
  [language |-> DetectPrimaryLanguage(files), status |-> "created",
   files |-> files, port |-> 0, lastOutput |-> <<>>]

\* --------------------------------------------------------- POST /api/chat
\* conversations.find(c => c.id === conversationId): its position, 0 when
\* there is none.
FindConversation(cid) ==
  LET hits == {k \in 1..Len(conversations) : conversations[k].id = cid}
  IN  IF hits = {} THEN 0 ELSE CHOOSE k \in hits : \A j \in hits : k <= j

\* The ids generateId hands out to conversations are taken fresh: 1, 2, ...
NewConversationId == Len(conversations) + 1

NewConversation(id) == [id |-> id, messages |-> <<>>]

UserMessage(msg) == [role |-> "user", content |-> msg, files |-> <<>>]
AssistantMessage(files) ==
  [role |-> "assistant", content |-> "reply",
   files |-> [k \in 1..Len(files) |-> files[k].path]]

\* conversation.messages.push(m) on the conversation object with the id.
PushMessage(convs, cid, m) ==
  [k \in 1..Len(convs) |->
     IF convs[k].id = cid THEN [convs[k] EXCEPT !.messages = Append(@, m)] ELSE convs[k]]

\* The assistant message is pushed to the conversation the request holds.
ChatReply(s, files) ==
  conversations' = IF reqs[s].conv = 0 THEN conversations
                   ELSE PushMessage(conversations, reqs[s].conv, AssistantMessage(files))

\* The handler up to the await of processChatMessage: a request without a
\* message is refused; otherwise the conversation is found or created, the
\* user message is pushed, and currentProject is the listed project with
\* the given id, if any.  No handler reads the messages back: a
\* specification that states nothing about conversations passes rec = FALSE
\* and leaves the store unrecorded.
ChatRequest(msg, cid, pid, rec) ==
  /\ mq = <<>>
  /\ FreeSlots # {}
  /\ IF msg = ""
     THEN /\ Answer(Resp("chat", 0, 400, "Message is required", 0))
          /\ UNCHANGED conversations
     ELSE LET k     == FindConversation(cid)
              id    == IF k > 0 THEN cid ELSE NewConversationId
              convs == IF k > 0 THEN conversations
                       ELSE <<NewConversation(id)>> \o conversations
          IN  /\ rec => IF k > 0 THEN Len(conversations[k].messages) < MaxMessages
                                 ELSE NewConversationId \in ConvIds
              /\ conversations' = IF rec THEN PushMessage(convs, id, UserMessage(msg))
                                  ELSE conversations
              /\ reqs' = [reqs EXCEPT ![FreeSlot] =
                            [Req("chat", IF pid # 0 /\ InListing(pid) THEN pid ELSE 0, "agent")
                               EXCEPT !.conv = IF rec THEN id ELSE 0]]
              /\ last' = NoResp
  /\ UNCHANGED <<projects, proj, runningProcesses, nextPort, procs, disk, idCount,
                 waitq, mq, portLog>>

\* The same, sent by a client the model does not follow.
ChatStart(msg, cid, pid, rec) == ChatRequest(msg, cid, pid, rec) /\ UNCHANGED <<calc, client>>

\* The agent's stream threw: processChatMessage rethrows, the handler answers 500.
ChatAgentFail_Replies(s) ==
  /\ mq = <<>>
  /\ UNCHANGED <<calc, client>>
  /\ reqs[s].kind = "chat" /\ reqs[s].pc = "agent"
  /\ ChatReply(s, <<>>)
  /\ Finish(s, Resp("chat", reqs[s].id, 500, "agent failed", 0))
  /\ UNCHANGED <<projects, proj, runningProcesses, nextPort, procs, disk, idCount,
                 waitq, mq, portLog>>
ChatAgentFail(s) ==
  /\ mq = <<>>
  /\ UNCHANGED <<calc, client>>
  /\ reqs[s].kind = "chat" /\ reqs[s].pc = "agent"
  /\ Finish(s, Resp("chat", reqs[s].id, 500, "agent failed", 0))
  /\ UNCHANGED <<projects, proj, runningProcesses, nextPort, procs, disk, idCount, conversations,
                 waitq, mq, portLog>>

\* The chat in slot t is about to call writeTextFile with the content of the
\* file object that sits at index k of project id's file list.
Holds(t, id, k) ==
  reqs[t].kind = "chat" /\ reqs[t].pc = "mkdir" /\ reqs[t].id = id /\ reqs[t].at = k

\* The loop of the update branch from file i on: the file object replaces
\* the tracked entry or is pushed, and the handler awaits mkdir; past the
\* last file createOrUpdateProject returns and the handler answers.
ChatUpdateFrom(s, id, files, i) ==
  IF i <= Len(files)
  THEN LET k == Place(proj[id].files, files[i].path)
       IN  /\ proj' = [proj EXCEPT ![id].files = Upsert(@, files[i])]
           /\ reqs' = [t \in Slots |->
                         IF t = s
                         THEN [Req("chat", id, "mkdir") EXCEPT
                                 !.files = files, !.i = i, !.at = k,
                                 !.conv = reqs[s].conv]
                         ELSE IF Holds(t, id, k) THEN [reqs[t] EXCEPT !.at = 0]
                         ELSE reqs[t]]
           /\ last' = NoResp
           /\ UNCHANGED conversations
  ELSE /\ proj' = proj
       /\ ChatReply(s, files)
       /\ Finish(s, Resp("chat", id, 200, "", 0))

\* The stream is drained: the files are parsed and createOrUpdateProject runs
\* to its first await.  At most cap project ids are generated.
ChatAgentDone(s, resp, cap) ==
  /\ mq = <<>>
  /\ UNCHANGED <<calc, client>>
  /\ reqs[s].kind = "chat" /\ reqs[s].pc = "agent"
  /\ LET files == ParseFilesFromResponse(ResponseText(resp))
         cur   == reqs[s].id
     IN  IF files = <<>>
         THEN /\ ChatReply(s, files)
              /\ Finish(s, Resp("chat", cur, 200, "", 0))
              /\ UNCHANGED <<proj, idCount>>
         ELSE IF cur # 0
         THEN /\ ChatUpdateFrom(s, cur, files, 1)
              /\ UNCHANGED idCount
         ELSE /\ GenerateId \in Ids /\ GenerateId <= cap
              /\ idCount' = idCount + 1
              /\ reqs' = [reqs EXCEPT ![s] = [Req("chat", GenerateId, "mkroot") EXCEPT
                                                !.files = files, !.i = 1,
                                                !.conv = reqs[s].conv]]
              /\ last' = NoResp
              /\ UNCHANGED <<proj, conversations>>
  /\ UNCHANGED <<projects, runningProcesses, nextPort, procs, disk, waitq, mq, portLog>>

\* Update branch: Deno.mkdir(dirPath) of file i settled.  writeTextFile is
\* called with the content the file object has now; a failure is logged and
\* the loop goes on to the next file.
ChatUpdateMkdir(s, ok) ==
  /\ mq = <<>>
  /\ UNCHANGED <<calc, client>>
  /\ reqs[s].kind = "chat" /\ reqs[s].pc = "mkdir"
  /\ LET r == reqs[s]
     IN  IF ok
         THEN /\ reqs' = [reqs EXCEPT ![s].pc = "write", ![s].at = 0]
              /\ last' = NoResp
              /\ UNCHANGED <<proj, conversations>>
         ELSE ChatUpdateFrom(s, r.id, r.files, r.i + 1)
  /\ UNCHANGED <<projects, runningProcesses, nextPort, procs, disk, idCount, waitq, mq,
                 portLog>>

\* Update branch: Deno.writeTextFile of file i settled (a failure is logged);
\* the loop goes on to the next file.
ChatUpdateWrite(s, ok) ==
  /\ mq = <<>>
  /\ UNCHANGED <<calc, client>>
  /\ reqs[s].kind = "chat" /\ reqs[s].pc = "write"
  /\ LET r == reqs[s]
         f == r.files[r.i]
     IN  /\ disk' = IF ok THEN WriteDisk(r.id, f.path, f.content) ELSE disk
         /\ ChatUpdateFrom(s, r.id, r.files, r.i + 1)
  /\ UNCHANGED <<projects, runningProcesses, nextPort, procs, idCount, waitq, mq, portLog>>

\* Create branch: Deno.mkdir(projectPath) settled; a failure is rethrown.
ChatMkRoot(s, ok) ==
  /\ mq = <<>>
  /\ UNCHANGED <<calc, client>>
  /\ reqs[s].kind = "chat" /\ reqs[s].pc = "mkroot"
  /\ IF ok
     THEN /\ reqs' = [reqs EXCEPT ![s].pc = "cwrite"]
          /\ last' = NoResp
     ELSE Finish(s, Resp("chat", 0, 500, "mkdir failed", 0))
  /\ UNCHANGED <<projects, proj, runningProcesses, nextPort, procs, disk, idCount, conversations,
                 waitq, mq, portLog>>

\* Create branch, after the write of file i: the loop goes on; after the
\* last file the project object is built and put at the front of the listing.
ChatCreateNext(s) ==
  LET r == reqs[s]
  IN  IF r.i < Len(r.files)
      THEN /\ reqs' = [reqs EXCEPT ![s].i = r.i + 1]
           /\ last' = NoResp
           /\ UNCHANGED <<proj, projects, conversations>>
      ELSE /\ proj' = [proj EXCEPT ![r.id] = NewProject(r.files)]
           /\ projects' = Unshift(projects, r.id)
           /\ ChatReply(s, r.files)
           /\ Finish(s, Resp("chat", r.id, 200, "", 0))

\* Create branch: mkdir and writeTextFile of file i settled (a failure is
\* caught and logged).
ChatCreateWrite_Raises(s, ok) ==
  /\ mq = <<>>
  /\ UNCHANGED <<calc, client>>
  /\ reqs[s].kind = "chat" /\ reqs[s].pc = "cwrite"
  /\ IF ok
     THEN /\ disk' = WriteDisk(reqs[s].id, reqs[s].files[reqs[s].i].path,
                               reqs[s].files[reqs[s].i].content)
          /\ ChatCreateNext(s)
     ELSE /\ Finish(s, Resp("chat", 0, 500, "write failed", 0))
          /\ UNCHANGED <<disk, proj, projects, conversations>>
  /\ UNCHANGED <<runningProcesses, nextPort, procs, idCount, waitq, mq, portLog>>
ChatCreateWrite(s, ok) ==
  /\ mq = <<>>
  /\ UNCHANGED <<calc, client>>
  /\ reqs[s].kind = "chat" /\ reqs[s].pc = "cwrite"
  /\ LET r == reqs[s]
         f == r.files[r.i]
     IN  disk' = IF ok THEN WriteDisk(r.id, f.path, f.content) ELSE disk
  /\ ChatCreateNext(s)
  /\ UNCHANGED <<runningProcesses, nextPort, procs, idCount, waitq, mq, portLog>>

\* ------------------------------------- PUT /api/projects/:id/files/:filePath
\* const file = project.files.find(...); if (file) file.content = content;
SetContent_Track(files, path, content) ==
  IF FindIndex(files, path) > 0
  THEN [files EXCEPT ![FindIndex(files, path)].content = content]
  ELSE Append(files, [path |-> path, content |-> content, language |-> "text"])
SetContent(files, path, content) ==
  IF FindIndex(files, path) > 0
  THEN [files EXCEPT ![FindIndex(files, path)].content = content]
  ELSE files

UpdateStart(id, path, content) ==
  /\ mq = <<>>
  /\ UNCHANGED <<calc, client>>
  /\ FreeSlots # {}
  /\ IF ~InListing(id)
     THEN Answer(Resp("update", id, 500, "Project not found", 0))
     ELSE /\ reqs' = [reqs EXCEPT ![FreeSlot] = [Req("update", id, "write") EXCEPT
                        !.files = <<[path |-> path, content |-> content, language |-> ""]>>]]
          /\ last' = NoResp
  /\ UNCHANGED <<projects, proj, runningProcesses, nextPort, procs, disk, idCount, conversations,
                 waitq, mq, portLog>>

\* writeTextFile settled: a failure is thrown to the handler; otherwise the
\* tracked file object, if there is one, takes the content, and with it a
\* chat that is about to write that same object.
UpdateWriteDone(s, ok) ==
  /\ mq = <<>>
  /\ UNCHANGED <<calc, client>>
  /\ reqs[s].kind = "update" /\ reqs[s].pc = "write"
  /\ LET r == reqs[s]
         f == r.files[1]
         k == FindIndex(proj[r.id].files, f.path)
     IN  IF ok
         THEN /\ disk' = WriteDisk(r.id, f.path, f.content)
              /\ proj' = [proj EXCEPT ![r.id].files = SetContent(@, f.path, f.content)]
              /\ reqs' = [t \in Slots |->
                            IF t = s THEN Idle
                            ELSE IF k > 0 /\ Holds(t, r.id, k)
                            THEN [reqs[t] EXCEPT !.files[reqs[t].i].content = f.content]
                            ELSE reqs[t]]
              /\ last' = Resp("update", r.id, 200, "", 0)
         ELSE /\ UNCHANGED <<disk, proj>>
              /\ Finish(s, Resp("update", r.id, 500, "write failed", 0))
  /\ UNCHANGED <<projects, runningProcesses, nextPort, procs, idCount, conversations, waitq, mq, portLog>>

\* ------------------------------------- GET /api/projects/:id/files/:filePath
\* getFileContent up to its await: the lookup in the listing.
GetFileContent_Stale(id, path) ==
  IF proj[id] = NoProject THEN "Project not found" ELSE ""
GetFileContent(id, path) ==
  IF ~InListing(id) THEN "Project not found" ELSE ""

\* Deno.readTextFile(`${project.path}/${filePath}`) settled: any failure is
\* rethrown as 'File not found'.
ReadTextFile(id, path) ==
  IF disk[DirOf(id, path)][NameOf(path)] = "" THEN "File not found" ELSE ""

\* The request up to its first suspension: an unlisted id is refused at
\* once, otherwise the handler awaits the read.
GetFile(id, path) ==
  /\ mq = <<>>
  /\ UNCHANGED <<calc, client>>
  /\ FreeSlots # {}
  /\ LET e == GetFileContent(id, path)
     IN  IF e # ""
         THEN Answer(Resp("getFile", id, 500, e, 0))
         ELSE /\ reqs' = [reqs EXCEPT ![FreeSlot] = [Req("getFile", id, "read") EXCEPT
                            !.files = <<[path |-> path, content |-> "", language |-> ""]>>]]
              /\ last' = NoResp
  /\ UNCHANGED <<projects, proj, runningProcesses, nextPort, procs, disk, idCount, conversations,
                 waitq, mq, portLog>>

\* The read settled: the handler answers with the content, or with the
\* error, whether or not the project is still listed.
GetFileRead(s) ==
  /\ mq = <<>>
  /\ UNCHANGED <<calc, client>>
  /\ reqs[s].kind = "getFile" /\ reqs[s].pc = "read"
  /\ LET e == ReadTextFile(reqs[s].id, reqs[s].files[1].path)
     IN  Finish(s, Resp("getFile", reqs[s].id, IF e = "" THEN 200 ELSE 500, e, 0))
  /\ UNCHANGED <<projects, proj, runningProcesses, nextPort, procs, disk, idCount, conversations,
                 waitq, mq, portLog>>

\* ------------------------------------------------------ /api/conversations
\* POST /api/conversations: a fresh, empty conversation goes to the front.
ConversationRequest ==
  /\ mq = <<>>
  /\ NewConversationId \in ConvIds
  /\ conversations' = <<NewConversation(NewConversationId)>> \o conversations
  /\ Answer(Resp("createConversation", NewConversationId, 200, "", 0))
  /\ UNCHANGED <<projects, proj, runningProcesses, nextPort, procs, disk, idCount,
                 waitq, mq, portLog>>

\* The same, sent by a client the model does not follow.
CreateConversation == ConversationRequest /\ UNCHANGED <<calc, client>>

\* GET /api/conversations/:id
GetConversation(cid) ==
  /\ mq = <<>>
  /\ UNCHANGED <<calc, client>>
  /\ Answer(IF FindConversation(cid) > 0
            THEN Resp("getConversation", cid, 200, "", 0)
            ELSE Resp("getConversation", cid, 404, "Conversation not found", 0))
  /\ UNCHANGED <<projects, proj, runningProcesses, nextPort, procs, disk, idCount,
                 conversations, waitq, mq, portLog>>

\* ------------------------------------------------- the client (script.js)
\* The browser runs its own event loop.  A fetch is "sent" (on its way to
\* the server), then "server" (the handler is suspended, or its response is
\* on its way back in the slot) or "answered" (the handler answered at
\* once and the response is on its way back), and ends when the response
\* is delivered or when the fetch rejects.  The body and the URL are built
\* when the fetch is called.  A step of the client commutes with the
\* server's microtasks and is taken between two server tasks.
Fetch(c, kind) ==
  [kind |-> kind, phase |-> "sent", pid |-> c.id, cid |-> c.conv, slot |-> 0,
   code |-> 0, id |-> 0, files |-> <<>>]

Send(c, kind) == [c EXCEPT !.fetches = Append(@, Fetch(c, kind))]

Remove(seq, k) == SubSeq(seq, 1, k - 1) \o SubSeq(seq, k + 1, Len(seq))

\* setTimeout(() => this.runProject(), 1000); from notes who set the timer.
SetTimer(c, from) == [c EXCEPT !.timers = Append(@, from)]

\* A step of the client alone.
ClientOnly ==
  /\ mq = <<>>
  /\ last' = NoResp
  /\ UNCHANGED <<projects, proj, runningProcesses, nextPort, procs, disk, idCount,
                 reqs, waitq, mq, portLog, conversations, calc>>

\* constructor and the New Chat button: createNewConversation up to its fetch.
ClientNewConversation ==
  /\ Len(client.fetches) < MaxFetches
  /\ client' = Send(client, "conv")
  /\ ClientOnly

\* sendMessage up to its fetch, with a message that is not blank.
ClientSend ==
  /\ Len(client.fetches) < MaxFetches
  /\ client' = Send(client, "chat")
  /\ ClientOnly

\* runProject up to its fetch: without a project it returns; otherwise
\* isRunning = true and the run request is sent.
RunProject(c) ==
  IF c.id = 0 THEN c ELSE [Send(c, "run") EXCEPT !.isRunning = TRUE]

\* The Run button.
ClientRun ==
  /\ client.id # 0 /\ Len(client.fetches) < MaxFetches
  /\ client' = RunProject(client)
  /\ ClientOnly

\* The Stop button: stopProject up to its fetch.
ClientStop ==
  /\ client.id # 0 /\ Len(client.fetches) < MaxFetches
  /\ client' = Send(client, "stop")
  /\ ClientOnly

\* The Restart button: restartProject awaits stopProject, which sends the
\* stop request; the timer is set when stopProject has returned.  Without
\* a project stopProject returns at once.
ClientRestart_NoAwait ==
  /\ Len(client.fetches) < MaxFetches
  /\ client' = IF client.id = 0 THEN SetTimer(client, "restart")
               ELSE SetTimer(Send(client, "stop"), "restart")
  /\ Len(client'.timers) <= MaxTimers
  /\ ClientOnly
ClientRestart ==
  /\ Len(client.fetches) < MaxFetches
  /\ client' = IF client.id = 0 THEN SetTimer(client, "restart")
               ELSE Send(client, "restart")
  /\ Len(client'.timers) <= MaxTimers
  /\ ClientOnly

\* A 1000 ms timer fired: runProject.
ClientTimer ==
  /\ client.timers # <<>>
  /\ client.id # 0 => Len(client.fetches) < MaxFetches
  /\ client' = RunProject([client EXCEPT !.timers = Tail(@)])
  /\ ClientOnly

\* The request of fetch k reaches the server, whose handler runs to its
\* first suspension or to its answer.
ClientArrive(k) ==
  LET f == client.fetches[k]
  IN  /\ f.phase = "sent"
      /\ CASE f.kind = "run" -> RunRequest(f.pid)
           [] f.kind \in {"stop", "restart"} -> StopRequest(f.pid)
           [] f.kind = "chat" -> ChatRequest("hi", f.cid, f.pid, TRUE)
           [] f.kind = "conv" -> ConversationRequest
      /\ client' = [client EXCEPT !.fetches[k] =
                      IF reqs' = reqs
                      THEN [f EXCEPT !.phase = "answered", !.code = last'.code,
                                     !.id = last'.id]
                      ELSE [f EXCEPT !.phase = "server", !.slot = FreeSlot]]
      /\ UNCHANGED calc

\* What the client does when stopProject has returned, by who called it.
AfterStop(c, kind) == IF kind = "restart" THEN SetTimer(c, "restart") ELSE c

\* fetch k rejected (the server could not be reached): the catch of the
\* function that sent it.  runProject resets isRunning; stopProject only
\* reports, and restartProject goes on to its timer.
Rejected(c, kind) ==
  CASE kind = "run" -> [c EXCEPT !.isRunning = FALSE]
    [] kind \in {"stop", "restart"} -> AfterStop(c, kind)
    [] OTHER -> c

ClientFetchFails(k) ==
  /\ client.fetches[k].phase = "sent"
  /\ client' = Rejected([client EXCEPT !.fetches = Remove(@, k)], client.fetches[k].kind)
  /\ Len(client'.timers) <= MaxTimers
  /\ ClientOnly

\* The response r of a fetch was parsed: the rest of the function that
\* sent it.  runProject acts only on success and then leaves isRunning as
\* it is; stopProject resets isRunning on success; sendMessage takes the
\* project of a response with shouldUpdate and sets the auto-run timer
\* when isRunning is false; createNewConversation takes the id.
Settled(c, kind, r) ==
  CASE kind = "run" -> c
    [] kind \in {"stop", "restart"} ->
         AfterStop([c EXCEPT !.isRunning = IF r.code = 200 THEN FALSE ELSE @], kind)
    [] kind = "chat" ->
         IF r.code = 200 /\ r.files # <<>> /\ r.id # 0
         THEN LET c1 == [c EXCEPT !.id = r.id]
              IN  IF ~c.isRunning THEN SetTimer(c1, "chat") ELSE c1
         ELSE c
    [] kind = "conv" -> IF r.code = 200 THEN [c EXCEPT !.conv = r.id] ELSE c

\* The response of fetch k, once the server has answered.
ResponseOf(f) ==
  IF f.phase = "server"
  THEN [code |-> reqs[f.slot].code, id |-> reqs[f.slot].id, files |-> reqs[f.slot].files]
  ELSE [code |-> f.code, id |-> f.id, files |-> f.files]

Answered(f) ==
  \/ f.phase = "answered"
  \/ f.phase = "server" /\ reqs[f.slot].kind = "done"

\* The response of fetch k reaches the client.
ClientDeliver(k) ==
  LET f == client.fetches[k]
  IN  /\ mq = <<>>
      /\ Answered(f)
      /\ client' = Settled([client EXCEPT !.fetches = Remove(@, k)], f.kind, ResponseOf(f))
      /\ Len(client'.timers) <= MaxTimers
      /\ reqs' = IF f.phase = "server" THEN [reqs EXCEPT ![f.slot] = Idle] ELSE reqs
      /\ last' = NoResp
      /\ UNCHANGED <<projects, proj, runningProcesses, nextPort, procs, disk, idCount,
                     waitq, mq, portLog, conversations, calc>>

\* ------------------------------------------------------------ specification
MaxBlocks == 2

AgentBlocks ==
  {[lang |-> "js", path |-> "index.js", content |-> c] : c \in Contents} \cup
  {[lang |-> "TS", path |-> "main.ts", content |-> c] : c \in Contents}

AgentResponses ==
  UNION {[1..n -> AgentBlocks] : n \in 0..MaxBlocks}

InstallResults == {"ok", "failed", "nospawn"}
Chunks == {"stdout", "stderr"}

\* The whole program: every handler, every input of the bounded sets.
Next ==
  \/ \E id \in Ids : BuildStart(id)
  \/ \E s \in Slots, found \in BOOLEAN : BuildStatDone(s, found)
  \/ \E s \in Slots, res \in InstallResults : BuildInstallDone(s, res)
  \/ \E id \in Ids : RunStart(id)
  \/ \E s \in Slots, found \in BOOLEAN : RunStatDone(s, found)
  \/ \E s \in Slots : RunGraceDone(s)
  \/ \E p \in Ports, chunk \in Chunks : CaptureOutput(p, chunk)
  \/ \E p \in Ports, stream \in Chunks : ReadDone(p, stream)
  \/ \E id \in Ids : StopStart(id)
  \/ \E p \in Ports : ProcExit(p)
  \/ Drain
  \/ \E id \in Ids : DeleteProject(id)
  \/ \E pid \in Ids \cup {0} : ChatStart("hi", 0, pid, FALSE)
  \/ \E s \in Slots : ChatAgentFail(s)
  \/ \E s \in Slots, resp \in AgentResponses : ChatAgentDone(s, resp, 2)
  \/ \E s \in Slots, ok \in BOOLEAN : ChatUpdateMkdir(s, ok)
  \/ \E s \in Slots, ok \in BOOLEAN : ChatUpdateWrite(s, ok)
  \/ \E s \in Slots, ok \in BOOLEAN : ChatMkRoot(s, ok)
  \/ \E s \in Slots, ok \in BOOLEAN : ChatCreateWrite(s, ok)
  \/ \E id \in Ids, path \in EditPaths, c \in Contents : UpdateStart(id, path, c)
  \/ \E s \in Slots, ok \in BOOLEAN : UpdateWriteDone(s, ok)
  \/ \E id \in Ids, path \in EditPaths : GetFile(id, path)
  \/ \E s \in Slots : GetFileRead(s)

Spec == Init /\ [][Next]_vars

\* The process supervisor: projects are created by chats that name no
\* project and answer with one block, and are run, stopped and deleted.
StarterResponses ==
  {<<[lang |-> "js", path |-> "index.js", content |-> "v1"]>>,
   <<[lang |-> "TS", path |-> "main.ts", content |-> "v1"]>>}

NextLife ==
  \/ \E id \in Ids : RunStart(id)
  \/ \E s \in Slots, found \in BOOLEAN : RunStatDone(s, found)
  \/ \E s \in Slots : RunGraceDone(s)
  \/ \E id \in Ids : StopStart(id)
  \/ \E p \in Ports : ProcExit(p)
  \/ Drain
  \/ \E id \in Ids : DeleteProject(id)
  \/ ChatStart("hi", 0, 0, FALSE)
  \/ \E s \in Slots, resp \in StarterResponses : ChatAgentDone(s, resp, 2)
  \/ \E s \in Slots : ChatMkRoot(s, TRUE)
  \/ \E s \in Slots : ChatCreateWrite(s, TRUE)

SpecLife == Init /\ [][NextLife]_vars

\* The project store: chats that create and update projects, direct file
\* edits and deletions, with disk writes that may fail.
StoreResponses ==
  {<<>>,
   <<[lang |-> "js", path |-> "index.js", content |-> "v1"]>>,
   <<[lang |-> "js", path |-> "index.js", content |-> "v2"]>>,
   <<[lang |-> "TS", path |-> "main.ts", content |-> "v1"]>>,
   <<[lang |-> "js", path |-> "index.js", content |-> "v1"],
     [lang |-> "js", path |-> "index.js", content |-> "v2"]>>,
   <<[lang |-> "TS", path |-> "main.ts", content |-> "v2"],
     [lang |-> "js", path |-> "index.js", content |-> "v1"]>>}

NextStore ==
  \/ \E pid \in Ids \cup {0} : ChatStart("hi", 0, pid, FALSE)
  \/ \E s \in Slots : ChatAgentFail(s)
  \/ \E s \in Slots, resp \in StoreResponses : ChatAgentDone(s, resp, 1)
  \/ \E s \in Slots, ok \in BOOLEAN : ChatUpdateMkdir(s, ok)
  \/ \E s \in Slots, ok \in BOOLEAN : ChatUpdateWrite(s, ok)
  \/ \E s \in Slots, ok \in BOOLEAN : ChatMkRoot(s, ok)
  \/ \E s \in Slots, ok \in BOOLEAN : ChatCreateWrite(s, ok)
  \/ \E id \in Ids, path \in EditPaths : UpdateStart(id, path, "v2")
  \/ \E s \in Slots, ok \in BOOLEAN : UpdateWriteDone(s, ok)
  \/ \E id \in Ids : DeleteProject(id)

SpecStore == Init /\ [][NextStore]_vars

\* The listing: projects are created, updated through chats that may hold a
\* project that has been deleted meanwhile, edited, read and deleted.
NextListing ==
  \/ \E pid \in Ids \cup {0} : ChatStart("hi", 0, pid, FALSE)
  \/ \E s \in Slots : ChatAgentFail(s)
  \/ \E s \in Slots, resp \in StarterResponses \cup {<<>>} : ChatAgentDone(s, resp, 2)
  \/ \E s \in Slots : ChatUpdateMkdir(s, TRUE)
  \/ \E s \in Slots : ChatUpdateWrite(s, TRUE)
  \/ \E s \in Slots, ok \in BOOLEAN : ChatMkRoot(s, ok)
  \/ \E s \in Slots : ChatCreateWrite(s, TRUE)
  \/ \E id \in Ids, path \in EditPaths : UpdateStart(id, path, "v1")
  \/ \E s \in Slots, ok \in BOOLEAN : UpdateWriteDone(s, ok)
  \/ \E id \in Ids, path \in EditPaths : GetFile(id, path)
  \/ \E s \in Slots : GetFileRead(s)
  \/ \E id \in Ids : DeleteProject(id)

SpecListing == Init /\ [][NextListing]_vars

\* Two chat requests that named project 1 while it was listed are waiting
\* for the agent.  The first edits index.js and util.js, the second main.ts.
File(path, content, language) == [path |-> path, content |-> content, language |-> language]
Block(lang, path, content) == [lang |-> lang, path |-> path, content |-> content]

BaseFileLists ==
  {<<File("main.ts", "v0", "typescript")>>,
   <<File("index.js", "v0", "javascript"), File("main.ts", "v0", "typescript")>>,
   <<File("util.js", "v0", "javascript"), File("main.ts", "v0", "typescript"),
     File("index.js", "v0", "javascript")>>,
   <<File("index.js", "v0", "javascript"), File("index.js", "v0", "javascript")>>}

FirstEdits ==
  {<<Block("js", "index.js", "x1"), Block("js", "util.js", "x1")>>,
   <<Block("js", "util.js", "x1"), Block("js", "index.js", "x1")>>,
   <<Block("js", "index.js", "x0"), Block("js", "util.js", "x1"),
     Block("js", "index.js", "x1")>>}

SecondEdits ==
  {<<Block("TS", "main.ts", "y1")>>,
   <<Block("TS", "main.ts", "y0"), Block("TS", "main.ts", "y1")>>}

InitTwoChats ==
  /\ projects = <<1>>
  /\ \E files \in BaseFileLists :
       /\ proj = [id \in Ids |-> IF id = 1 THEN NewProject(files) ELSE NoProject]
       /\ disk = [d \in Dirs |-> [p \in Paths |->
                    IF d = 1 /\ FindIndex(files, p) > 0 THEN "v0" ELSE ""]]
  /\ runningProcesses = [id \in Ids |-> 0]
  /\ nextPort = FirstPort
  /\ procs = [p \in Ports |-> NoProc]
  /\ idCount = 1
  /\ reqs = [s \in Slots |-> Req("chat", 1, "agent")]
  /\ waitq = <<>>
  /\ mq = <<>>
  /\ last = NoResp
  /\ portLog = <<>>
  /\ conversations = <<>>
  /\ client = NoClient
  /\ calc = NoCalc

NextTwoChats ==
  \/ \E resp \in FirstEdits : ChatAgentDone(1, resp, 1)
  \/ \E resp \in SecondEdits : ChatAgentDone(2, resp, 1)
  \/ \E s \in Slots, ok \in BOOLEAN : ChatUpdateMkdir(s, ok)
  \/ \E s \in Slots, ok \in BOOLEAN : ChatUpdateWrite(s, ok)

SpecTwoChats == InitTwoChats /\ [][NextTwoChats]_vars

\* Build and run: one project of each language is created, built, run,
\* stopped and deleted, in every interleaving.
BuildResponses ==
  {<<Block("js", "index.js", "v1")>>,
   <<Block("TS", "main.ts", "v1")>>,
   <<Block("py", "main.py", "v1")>>}

NextBuild ==
  \/ ChatStart("hi", 0, 0, FALSE)
  \/ \E s \in Slots, resp \in BuildResponses : ChatAgentDone(s, resp, 1)
  \/ \E s \in Slots : ChatMkRoot(s, TRUE)
  \/ \E s \in Slots : ChatCreateWrite(s, TRUE)
  \/ \E id \in Ids : BuildStart(id)
  \/ \E s \in Slots, found \in BOOLEAN : BuildStatDone(s, found)
  \/ \E s \in Slots, res \in InstallResults : BuildInstallDone(s, res)
  \/ \E id \in Ids : RunStart(id)
  \/ \E s \in Slots, found \in BOOLEAN : RunStatDone(s, found)
  \/ \E s \in Slots : RunGraceDone(s)
  \/ \E id \in Ids : StopStart(id)
  \/ \E p \in Ports : ProcExit(p)
  \/ Drain
  \/ \E id \in Ids : DeleteProject(id)

SpecBuild == Init /\ [][NextBuild]_vars

\* Output capture: one project is created, run, stopped and deleted while
\* the readers of its children deliver chunks.
NextOutput ==
  \/ ChatStart("hi", 0, 0, FALSE)
  \/ \E s \in Slots, resp \in StarterResponses : ChatAgentDone(s, resp, 1)
  \/ \E s \in Slots : ChatMkRoot(s, TRUE)
  \/ \E s \in Slots : ChatCreateWrite(s, TRUE)
  \/ \E id \in Ids : RunStart(id)
  \/ \E s \in Slots, found \in BOOLEAN : RunStatDone(s, found)
  \/ \E s \in Slots : RunGraceDone(s)
  \/ \E p \in Ports, chunk \in Chunks : CaptureOutput(p, chunk)
  \/ \E p \in Ports, stream \in Chunks : ReadDone(p, stream)
  \/ \E id \in Ids : StopStart(id)
  \/ \E p \in Ports : ProcExit(p)
  \/ Drain
  \/ \E id \in Ids : DeleteProject(id)

SpecOutput == Init /\ [][NextOutput]_vars

\* File paths: agent responses and clients name files inside the project
\* and files reached through a '..' segment.
PathResponses ==
  {<<Block("js", "index.js", "v1")>>,
   <<Block("text", "../leak.txt", "v2")>>,
   <<Block("js", "index.js", "v2"), Block("text", "../leak.txt", "v1")>>}

ClientPaths == {"index.js", "../leak.txt"}

NextPaths ==
  \/ \E pid \in Ids \cup {0} : ChatStart("hi", 0, pid, FALSE)
  \/ \E s \in Slots, resp \in PathResponses : ChatAgentDone(s, resp, 1)
  \/ \E s \in Slots : ChatMkRoot(s, TRUE)
  \/ \E s \in Slots : ChatCreateWrite(s, TRUE)
  \/ \E s \in Slots : ChatUpdateMkdir(s, TRUE)
  \/ \E s \in Slots : ChatUpdateWrite(s, TRUE)
  \/ \E id \in Ids, path \in ClientPaths : UpdateStart(id, path, "v1")
  \/ \E s \in Slots : UpdateWriteDone(s, TRUE)
  \/ \E id \in Ids, path \in ClientPaths : GetFile(id, path)
  \/ \E s \in Slots : GetFileRead(s)

SpecPaths == Init /\ [][NextPaths]_vars

\* Conversations: clients open conversations, read them, and chat with and
\* without a message, naming a conversation or none, while the agent call
\* fails or answers with no file or one file.
ChatMessages == {"", "hi"}
ChatResponses == {<<>>, <<Block("js", "index.js", "v1")>>}
ClientConvIds == ConvIds \cup {0}   \* 0: no conversationId, or an unknown one

NextChat ==
  \/ CreateConversation
  \/ \E cid \in ClientConvIds : GetConversation(cid)
  \/ \E msg \in ChatMessages, cid \in ClientConvIds, pid \in {0, 1} :
       ChatStart(msg, cid, pid, TRUE)
  \/ \E s \in Slots : ChatAgentFail(s)
  \/ \E s \in Slots, resp \in ChatResponses : ChatAgentDone(s, resp, 1)
  \/ \E s \in Slots : ChatMkRoot(s, TRUE)
  \/ \E s \in Slots : ChatCreateWrite(s, TRUE)
  \/ \E s \in Slots : ChatUpdateMkdir(s, TRUE)
  \/ \E s \in Slots : ChatUpdateWrite(s, TRUE)

SpecChat == Init /\ [][NextChat]_vars

\* Project languages: one project is created from files of python,
\* javascript, typescript or text, alone or mixed, and later chats add
\* files of the other languages to it.
LanguageResponses ==
  {<<Block("py", "main.py", "v1")>>,
   <<Block("js", "index.js", "v1")>>,
   <<Block("TS", "main.ts", "v1")>>,
   <<Block("text", "leak.txt", "v1")>>,
   <<Block("py", "main.py", "v1"), Block("js", "index.js", "v1")>>,
   <<Block("js", "index.js", "v1"), Block("TS", "main.ts", "v1")>>}

NextLanguage ==
  \/ \E pid \in {0, 1} : ChatStart("hi", 0, pid, FALSE)
  \/ \E s \in Slots, resp \in LanguageResponses : ChatAgentDone(s, resp, 1)
  \/ \E s \in Slots : ChatMkRoot(s, TRUE)
  \/ \E s \in Slots : ChatCreateWrite(s, TRUE)
  \/ \E s \in Slots : ChatUpdateMkdir(s, TRUE)
  \/ \E s \in Slots : ChatUpdateWrite(s, TRUE)

SpecLanguage == Init /\ [][NextLanguage]_vars

\* The mirror: one project is created by a chat, then chats that name it
\* and direct file edits update the same path; no disk operation fails.
MirrorResponses == {<<[lang |-> "js", path |-> "index.js", content |-> "v1"]>>}

NextMirror ==
  \/ \E pid \in {0, 1} : ChatStart("hi", 0, pid, FALSE)
  \/ \E s \in Slots, resp \in MirrorResponses : ChatAgentDone(s, resp, 1)
  \/ \E s \in Slots : ChatMkRoot(s, TRUE)
  \/ \E s \in Slots : ChatCreateWrite(s, TRUE)
  \/ \E s \in Slots : ChatUpdateMkdir(s, TRUE)
  \/ \E s \in Slots : ChatUpdateWrite(s, TRUE)
  \/ UpdateStart(1, "index.js", "v2")
  \/ \E s \in Slots : UpdateWriteDone(s, TRUE)

SpecMirror == Init /\ [][NextMirror]_vars

\* The client and the server from the start: the constructor of the client
\* has called createNewConversation.  The client chats (the agent answers
\* with one file), runs, stops and restarts its project, while another
\* client deletes that project.
InitClient ==
  /\ projects = <<>>
  /\ proj = [id \in Ids |-> NoProject]
  /\ runningProcesses = [id \in Ids |-> 0]
  /\ nextPort = FirstPort
  /\ procs = [p \in Ports |-> NoProc]
  /\ disk = [d \in Dirs |-> [p \in Paths |-> ""]]
  /\ idCount = 0
  /\ reqs = [s \in Slots |-> Idle]
  /\ waitq = <<>>
  /\ mq = <<>>
  /\ last = NoResp
  /\ portLog = <<>>
  /\ conversations = <<>>
  /\ client = Send(NoClient, "conv")
  /\ calc = NoCalc

ClientResponses ==
  {<<[lang |-> "js", path |-> "index.js", content |-> "v1"]>>,
   <<[lang |-> "TS", path |-> "main.ts", content |-> "v1"]>>}

\* Restart: the client chats until it has a project, then restarts it.
NextRestart ==
  \/ client.id = 0 /\ ClientSend
  \/ ClientRestart
  \/ ClientTimer
  \/ \E k \in 1..Len(client.fetches) : ClientArrive(k)
  \/ \E k \in 1..Len(client.fetches) : ClientFetchFails(k)
  \/ \E k \in 1..Len(client.fetches) : ClientDeliver(k)
  \/ \E s \in Slots : ChatAgentDone(s, <<[lang |-> "TS", path |-> "main.ts", content |-> "v1"]>>, 1)
  \/ \E s \in Slots : ChatMkRoot(s, TRUE)
  \/ \E s \in Slots : ChatCreateWrite(s, TRUE)
  \/ \E s \in Slots : RunGraceDone(s)
  \/ \E p \in Ports : ProcExit(p)
  \/ Drain
  \/ DeleteProject(1)

SpecRestart == InitClient /\ [][NextRestart]_vars

\* The buttons: the client starts conversations, chats until it has a
\* project, then runs and stops it.
NextClientRun ==
  \/ ClientNewConversation
  \/ client.id = 0 /\ ClientSend
  \/ ClientRun
  \/ ClientStop
  \/ ClientTimer
  \/ \E k \in 1..Len(client.fetches) : ClientArrive(k)
  \/ \E k \in 1..Len(client.fetches) : ClientFetchFails(k)
  \/ \E k \in 1..Len(client.fetches) : ClientDeliver(k)
  \/ \E s \in Slots, resp \in ClientResponses : ChatAgentDone(s, resp, 1)
  \/ \E s \in Slots : ChatMkRoot(s, TRUE)
  \/ \E s \in Slots : ChatCreateWrite(s, TRUE)
  \/ \E s \in Slots, found \in BOOLEAN : RunStatDone(s, found)
  \/ \E s \in Slots : RunGraceDone(s)
  \/ \E p \in Ports : ProcExit(p)
  \/ Drain

SpecClientRun == InitClient /\ [][NextClientRun]_vars

\* The pure functions of the server, each applied to an input drawn from a
\* bounded set: a language tag, or an agent response of up to MaxBlocks
\* blocks with and without a tag, a path and content.
Tags ==
  {"js", "JS", "ts", "TS", "py", "Py", "javascript", "typescript", "python",
   "json", "html", "HTML", "css", "md", "MD", "markdown", "text", "cpp", "constructor"}

ParserBlocks ==
  {Block(l, p, c) : l \in {"js", "TS", "c++", ""}, p \in {"", "index.js", "main.py"},
                    c \in {"", "v1"}}

ParserResponses == UNION {[1..n -> ParserBlocks] : n \in 0..MaxBlocks}

ServerVars == <<projects, proj, runningProcesses, nextPort, procs, disk, idCount,
                reqs, waitq, mq, last, portLog, conversations>>

InitPure ==
  /\ projects = <<>>
  /\ proj = [id \in Ids |-> NoProject]
  /\ runningProcesses = [id \in Ids |-> 0]
  /\ nextPort = FirstPort
  /\ procs = [p \in Ports |-> NoProc]
  /\ disk = [d \in Dirs |-> [p \in Paths |-> ""]]
  /\ idCount = 0
  /\ reqs = [s \in Slots |-> Idle]
  /\ waitq = <<>>
  /\ mq = <<>>
  /\ last = NoResp
  /\ portLog = <<>>
  /\ conversations = <<>>
  /\ client = NoClient
  /\ \/ \E tag \in Tags : calc = [fn |-> "none", kind |-> "tag", arg |-> tag, res |-> ""]
     \/ \E resp \in ParserResponses :
          calc = [fn |-> "none", kind |-> "response", arg |-> resp, res |-> <<>>]

\* this.normalizeLanguage(tag)
CalcNormalize ==
  /\ calc.kind = "tag" /\ calc.fn = "none"
  /\ calc' = [calc EXCEPT !.fn = "normalize", !.res = NormalizeLanguage(calc.arg)]
  /\ UNCHANGED <<ServerVars, client>>

\* this.normalizeLanguage(this.normalizeLanguage(tag)): the second call
\* throws when the first returned a value that is not a string.
CalcNormalizeAgain ==
  /\ calc.kind = "tag" /\ calc.fn = "normalize"
  /\ calc' = [calc EXCEPT !.fn = "normalize twice",
                          !.res = IF calc.res \in NotStrings THEN "TypeError"
                                  ELSE NormalizeLanguage(calc.res)]
  /\ UNCHANGED <<ServerVars, client>>

\* this.parseFilesFromResponse(rawResponse)
CalcParse ==
  /\ calc.kind = "response" /\ calc.fn = "none"
  /\ calc' = [calc EXCEPT !.fn = "parse",
                          !.res = ParseFilesFromResponse(ResponseText(calc.arg))]
  /\ UNCHANGED <<ServerVars, client>>

\* this.detectPrimaryLanguage(files) on the parsed files
CalcDetect ==
  /\ calc.kind = "response" /\ calc.fn = "parse"
  /\ calc' = [calc EXCEPT !.fn = "detect", !.res = <<DetectPrimaryLanguage(calc.res)>>]
  /\ UNCHANGED <<ServerVars, client>>

NextPure ==
  \/ CalcNormalize
  \/ CalcNormalizeAgain
  \/ CalcParse
  \/ CalcDetect

SpecPure == InitPure /\ [][NextPure]_vars

\* The event loop runs every continuation that is ready; whether a child
\* exits, and whether a client sends a request, is left open.
LiveLife ==
  /\ SpecLife
  /\ WF_vars(Drain)
  /\ \A s \in Slots : WF_vars(\E found \in BOOLEAN : RunStatDone(s, found))
  /\ \A s \in Slots : WF_vars(RunGraceDone(s))
  /\ \A s \in Slots : WF_vars(ChatMkRoot(s, TRUE))
  /\ \A s \in Slots : WF_vars(ChatCreateWrite(s, TRUE))

\* ------------------------------------------------------------------ claims
Live(p) == procs[p].state \in {"running", "signaled"}
LiveOf(id) == {p \in Ports : procs[p].proj = id /\ Live(p)}

\* The project object was registered once and is no longer listed.
Gone(id) == proj[id] # NoProject /\ ~InListing(id)

\* C1: no project id ever has two spawned, not yet exited child processes.
C1_OneLiveProcessPerProject ==
  \A id \in Ids : Cardinality(LiveOf(id)) <= 1

\* C2: every run assigns a port strictly greater than every port assigned
\* by an earlier run, across projects, deletions and failed spawns.
C2_PortsStrictlyIncrease ==
  /\ \A i, j \in 1..Len(portLog) : i < j => portLog[i] < portLog[j]
  /\ \A id \in Ids : proj[id].port # 0 => \E i \in 1..Len(portLog) : portLog[i] = proj[id].port

\* A run of project 1 failed to spawn, project 1 was deleted, and the later
\* project 2 was given a higher port.
C2_Witness ==
  /\ Gone(1) /\ proj[1].status = "error" /\ proj[1].port # 0
  /\ procs[proj[1].port] = NoProc
  /\ InListing(2) /\ proj[2].port > proj[1].port

\* C3: the step that deletes a project whose registered process is running
\* sends that process the termination signal.
C3_DeleteSignalsProcess ==
  [][\A id \in Ids :
       (/\ InListing(id) /\ ~InListing(id)'
        /\ runningProcesses[id] # 0
        /\ procs[runningProcesses[id]].state = "running")
       => procs'[runningProcesses[id]].state # "running"]_vars

\* C5: a stop of a listed project with no registered process answers
\* without an error, sets status 'stopped' and changes nothing else.
C5_StopUnregisteredIsNoOp ==
  [][\A id \in Ids :
       (StopStart(id) /\ InListing(id) /\ runningProcesses[id] = 0)
       => /\ last'.kind = "stop" /\ last'.id = id /\ last'.code = 200
          /\ proj'[id] = [proj[id] EXCEPT !.status = "stopped"]
          /\ \A o \in Ids \ {id} : proj'[o] = proj[o]
          /\ runningProcesses' = runningProcesses
          /\ nextPort' = nextPort
          /\ procs' = procs
          /\ disk' = disk
          /\ projects' = projects]_vars

\* A never started project was just stopped, and a project that ran and was
\* stopped was just stopped again.
C5_Witness ==
  \E id \in Ids :
    /\ last.kind = "stop" /\ last.id = id /\ last.code = 200
    /\ InListing(id) /\ runningProcesses[id] = 0
    /\ proj[id].status = "stopped" /\ proj[id].port = 0

\* No other request on project id is suspended.
NothingElseOn(id) == \A s \in Slots : reqs[s].kind # "idle" => reqs[s].id # id

\* C6: a stop that directly follows a completed stop of the same listed
\* project, with no other request on that project in flight, answers
\* without an error and leaves status, process map and port as the first
\* stop left them.
C6_StopIdempotent ==
  [][\A id \in Ids :
       (/\ last.kind = "stop" /\ last.id = id /\ last.code = 200
        /\ InListing(id) /\ NothingElseOn(id)
        /\ StopStart(id))
       => /\ last'.kind = "stop" /\ last'.id = id /\ last'.code = 200
          /\ proj'[id].status = proj[id].status
          /\ proj'[id].port = proj[id].port
          /\ runningProcesses' = runningProcesses]_vars

\* Two stops in a row of a project whose process was signalled and exited.
C6_Witness ==
  \E id \in Ids :
    /\ last.kind = "stop" /\ last.id = id /\ last.code = 200 /\ last.n = 2
    /\ proj[id].port # 0
    /\ procs[proj[id].port].proj = id /\ procs[proj[id].port].state = "exited"

\* C7: every stop request eventually returns to its caller.
C7_StopCompletes ==
  \A s \in Slots : (reqs[s].kind = "stop") ~> (reqs[s].kind # "stop")

\* C4: a deleted project is not listed, stays unlisted whatever follows,
\* and every getFile on its id answers 'Project not found'.
C4_DeletedStaysDeleted ==
  [][\A id \in Ids :
       /\ (last'.kind = "delete" /\ last'.id = id) => ~InListing(id)'
       /\ Gone(id) => ~InListing(id)'
       /\ \A path \in EditPaths :
            (Gone(id) /\ GetFile(id, path))
            => (last'.code = 500 /\ last'.err = "Project not found")]_vars

\* Project 1 was deleted with its file still on disk, project 2 was created,
\* and a getFile on project 1 was just refused.
C4_Witness ==
  /\ Gone(1) /\ InListing(2)
  /\ \E path \in EditPaths : disk[1][path] # ""
  /\ last.kind = "getFile" /\ last.id = 1 /\ last.code = 500
  /\ last.err = "Project not found"

\* The file a chat request upserted in the step just taken, if any.
Upserted(s) ==
  IF reqs'[s].kind = "chat" /\ reqs'[s].pc = "mkdir"
     /\ (reqs[s].pc = "agent" \/ reqs'[s].i = reqs[s].i + 1)
  THEN {reqs'[s].files[reqs'[s].i]}
  ELSE {}

\* C8: each file a chat applies to an existing project replaces the first
\* tracked entry with its path, the number of entries unchanged, or is
\* appended at the end when the path is untracked; no other entry changes.
C8_UpsertByPath ==
  [][\A s \in Slots : \A f \in Upserted(s) :
       LET old == proj[reqs'[s].id].files
           new == proj'[reqs'[s].id].files
       IN  IF \E k \in 1..Len(old) : old[k].path = f.path
           THEN /\ Len(new) = Len(old)
                /\ \E k \in 1..Len(old) :
                     /\ old[k].path = f.path
                     /\ \A j \in 1..(k - 1) : old[j].path # f.path
                     /\ new[k] = f
                     /\ \A j \in 1..Len(old) : j # k => new[j] = old[j]
           ELSE /\ Len(new) = Len(old) + 1
                /\ new[Len(new)] = f
                /\ \A j \in 1..Len(old) : new[j] = old[j]]_vars

\* A chat has applied main.ts and then index.js to a project that tracks
\* index.js first: main.ts went to the end, index.js was replaced in place.
C8_Witness ==
  \E s \in Slots :
    /\ reqs[s].kind = "chat" /\ reqs[s].pc = "mkdir" /\ reqs[s].i = 2
    /\ reqs[s].files[1].path = "main.ts" /\ reqs[s].files[2].path = "index.js"
    /\ proj[reqs[s].id].files = <<reqs[s].files[2], reqs[s].files[1]>>

\* C9: no project's file list holds two entries with the same path.
C9_UniquePaths ==
  \A id \in Ids : \A i, j \in 1..Len(proj[id].files) :
    i # j => proj[id].files[i].path # proj[id].files[j].path

\* The content the list shows for a path: that of its first entry.
ContentOf(files, path) ==
  IF FindIndex(files, path) = 0 THEN "" ELSE files[FindIndex(files, path)].content

\* C10: once both chats have answered, the list holds index.js and util.js
\* as the first chat last wrote them and main.ts as the second one did.
C10_DisjointEditsKept ==
  (\A s \in Slots : reqs[s].kind = "idle")
  => /\ ContentOf(proj[1].files, "index.js") = "x1"
     /\ ContentOf(proj[1].files, "util.js") = "x1"
     /\ ContentOf(proj[1].files, "main.ts") = "y1"

\* Both chats have answered and index.js and util.js were appended to a
\* project that held main.ts alone.
C10_Witness ==
  /\ \A s \in Slots : reqs[s].kind = "idle"
  /\ last.kind = "chat" /\ last.code = 200
  /\ Len(proj[1].files) = 3
  /\ proj[1].files[1] = File("main.ts", "y1", "typescript")

\* C11: every step leaves the listing as it was, puts one project that was
\* not listed at its front, or removes one id; the others keep their order.
C11_ListingNewestFirst ==
  [][\/ projects' = projects
     \/ \E id \in Ids : ~InListing(id) /\ projects' = <<id>> \o projects
     \/ \E id \in Ids : InListing(id) /\ projects' = RemoveId(projects, id)]_vars

\* Project 2 was created after project 1 and is listed before it.
C11_Witness ==
  /\ projects = <<2, 1>>
  /\ last.kind = "chat" /\ last.id = 2 /\ last.code = 200

\* C12: every change of the status of a project follows an edge of the
\* stated state machine.
C12_StatusFollowsEdges ==
  [][LET StatedEdges ==
            {<<"created", "building">>, <<"building", "created">>, <<"building", "error">>,
             <<"created", "running">>, <<"error", "running">>, <<"stopped", "running">>,
             <<"running", "stopped">>}
     IN  \A id \in Ids :
           (proj[id] # NoProject /\ proj'[id].status # proj[id].status)
           => <<proj[id].status, proj'[id].status>> \in StatedEdges]_vars

\* C13: a build whose installer exits with a non-zero status answers
\* without an error, reports the failure and leaves status 'error'.
C13_InstallerFailureReported ==
  [][\A s \in Slots :
       (reqs[s].kind = "build" /\ BuildInstallDone(s, "failed"))
       => /\ last'.kind = "build" /\ last'.code = 200
          /\ last'.out = "install failed"
          /\ proj'[reqs[s].id].status = "error"]_vars

\* C17: a project with an entry in the process map is listed and running.
C17_RegisteredIsListedAndRunning ==
  \A id \in Ids :
    runningProcesses[id] # 0 => (InListing(id) /\ proj[id].status = "running")

\* C14: in the step in which the spawn of a run fails, the project's status
\* becomes 'error', no process is registered and no child is created, and the
\* run answers 500 with the error, in that step or, when other continuations
\* are queued before the handler's catch, in the step that resumes it.
C14_SpawnFailureSetsError ==
  [][\A id \in Ids :
       LET Thrown(s)  == reqs[s].kind = "run" /\ reqs[s].pc = "throw" /\ reqs[s].id = id
           Throws(s)  == /\ ~Thrown(s)
                         /\ reqs'[s].kind = "run" /\ reqs'[s].pc = "throw" /\ reqs'[s].id = id
           Resumed(s) == Thrown(s) /\ reqs'[s] # reqs[s]
           Answers    == last'.kind = "run" /\ last'.id = id /\ last'.err = "spawn failed"
       IN  /\ ((\E s \in Slots : Throws(s)) \/ (Answers /\ ~\E s \in Slots : Resumed(s)))
              => /\ proj'[id].status = "error"
                 /\ runningProcesses' = runningProcesses
                 /\ procs' = procs
           /\ Answers => last'.code = 500
           /\ \A s \in Slots : Resumed(s) => Answers]_vars

\* A run took port 3001, its spawn failed, and nothing is registered.
C14_Witness ==
  \E id \in Ids :
    /\ last.kind = "run" /\ last.id = id /\ last.err = "spawn failed"
    /\ InListing(id) /\ proj[id].status = "error" /\ proj[id].port = FirstPort
    /\ runningProcesses[id] = 0 /\ procs[FirstPort] = NoProc

\* C15: when the agent call fails in a chat that references a listed
\* project, the answer is an error with a message and the project's status
\* becomes 'error'.
C15_AgentFailureSetsError ==
  [][\A s \in Slots :
       (reqs[s].kind = "chat" /\ reqs[s].id # 0 /\ ChatAgentFail(s))
       => /\ last'.code = 500 /\ last'.err # ""
          /\ proj'[reqs[s].id].status = "error"]_vars

IsPrefix(a, b) == Len(a) <= Len(b) /\ SubSeq(b, 1, Len(a)) = a

\* C16: every write to a project's lastOutput keeps the previous value as
\* a prefix.
C16_LastOutputAppendOnly ==
  [][\A id \in Ids : IsPrefix(proj[id].lastOutput, proj'[id].lastOutput)]_vars

\* C18: no write of createOrUpdate or updateFile lands outside the
\* directory of a project.
C18_FilesStayInsideRoot ==
  \A p \in Paths : disk[0][p] = ""

\* C19: a direct edit whose write succeeded puts the content on disk; an
\* untracked path leaves the file list as it was, a tracked path changes
\* the content of its entry and nothing else.
C19_UpdateFileFrame ==
  [][\A s \in Slots :
       (reqs[s].kind = "update" /\ UpdateWriteDone(s, TRUE))
       => LET id  == reqs[s].id
              f   == reqs[s].files[1]
              old == proj[id].files
              new == proj'[id].files
          IN  /\ last'.kind = "update" /\ last'.code = 200
              /\ disk'[id][f.path] = f.content
              /\ \A o \in Ids \ {id} : proj'[o] = proj[o]
              /\ IF \A k \in 1..Len(old) : old[k].path # f.path
                 THEN new = old
                 ELSE \E k \in 1..Len(old) :
                        /\ old[k].path = f.path
                        /\ new = [old EXCEPT ![k].content = f.content]]_vars

\* main.ts was edited directly: it is on disk and the list, which tracks
\* index.js only, does not hold it.
C19_Witness ==
  \E id \in Ids :
    /\ last.kind = "update" /\ last.id = id /\ last.code = 200
    /\ InListing(id) /\ disk[id]["main.ts"] = "v2"
    /\ FindIndex(proj[id].files, "main.ts") = 0
    /\ FindIndex(proj[id].files, "index.js") > 0

\* C20: a chat that has begun to write its files ends with a success answer
\* after its last file, whatever writes failed, with every path of the call
\* tracked; a created project holds exactly the files of the call and is
\* listed.
C20_WriteFailuresTolerated ==
  [][\A s \in Slots :
       (/\ reqs[s].kind = "chat" /\ reqs[s].pc \in {"mkdir", "write", "cwrite"}
        /\ reqs'[s].kind # "chat")
       => LET r == reqs[s]
          IN  /\ last'.kind = "chat" /\ last'.id = r.id /\ last'.code = 200
              /\ r.i = Len(r.files)
              /\ \A k \in 1..Len(r.files) :
                   FindIndex(proj'[r.id].files, r.files[k].path) > 0
              /\ r.pc = "cwrite"
                 => /\ proj'[r.id].files = r.files
                    /\ \E k \in 1..Len(projects') : projects'[k] = r.id]_vars

\* A project was created from main.ts and index.js; the write of main.ts
\* failed, index.js was written, and both are tracked.
C20_Witness ==
  \E id \in Ids :
    /\ last.kind = "chat" /\ last.id = id /\ last.code = 200
    /\ InListing(id) /\ Len(proj[id].files) = 2
    /\ proj[id].files[1].path = "main.ts" /\ proj[id].files[2].path = "index.js"
    /\ disk[id]["main.ts"] = "" /\ disk[id]["index.js"] = "v1"

\* The messages of the conversation with the given id.
MessagesOf(convs, cid) ==
  IF \E k \in 1..Len(convs) : convs[k].id = cid
  THEN convs[CHOOSE k \in 1..Len(convs) : convs[k].id = cid].messages
  ELSE <<>>

\* C21: a chat whose agent call fails has pushed its user message and
\* nothing else: accepting the chat keeps every stored message in place and
\* adds one user message at the end of its conversation; the failure answers
\* with an error and leaves conversations, projects and files as they were.
C21_AgentFailureKeepsState ==
  [][\A s \in Slots :
       /\ (reqs[s].kind = "idle" /\ reqs'[s].kind = "chat")
          => /\ \A k \in 1..Len(conversations) :
                  LET c == conversations[k]
                      d == conversations'[k + Len(conversations') - Len(conversations)]
                  IN  /\ d.id = c.id
                      /\ d.messages = IF c.id = reqs'[s].conv
                                      THEN Append(c.messages, UserMessage("hi"))
                                      ELSE c.messages
             /\ MessagesOf(conversations', reqs'[s].conv)
                  = Append(MessagesOf(conversations, reqs'[s].conv), UserMessage("hi"))
             /\ projects' = projects /\ proj' = proj /\ disk' = disk
       /\ (reqs[s].kind = "chat" /\ ChatAgentFail(s))
          => /\ last'.kind = "chat" /\ last'.code = 500 /\ last'.err # ""
             /\ conversations' = conversations
             /\ projects' = projects /\ proj' = proj /\ disk' = disk]_vars

\* A conversation holds a completed exchange that created a project and the
\* user message of a chat on that project whose agent call has just failed.
C21_Witness ==
  \E k \in 1..Len(conversations) : \E id \in Ids :
    /\ last.kind = "chat" /\ last.id = id /\ last.code = 500
    /\ InListing(id)
    /\ Len(conversations[k].messages) = 3
    /\ conversations[k].messages[2].role = "assistant"
    /\ conversations[k].messages[3] = UserMessage("hi")
    /\ \A s \in Slots : reqs[s].kind = "idle"

\* C22: a chat without a message answers 400 and touches nothing; every
\* other answer that is not a success has status 500 and an error message.
C22_ErrorStatuses ==
  [][/\ \A cid \in ClientConvIds, pid \in {0, 1} :
          ChatStart("", cid, pid, TRUE)
          => /\ last'.kind = "chat" /\ last'.code = 400 /\ last'.err # ""
             /\ conversations' = conversations /\ reqs' = reqs
             /\ projects' = projects /\ proj' = proj /\ disk' = disk
     /\ (last'.code \notin {0, 200} /\ last'.code # 400)
          => (last'.code = 500 /\ last'.err # "")]_vars

\* The files the stated parser returns for a sequence of blocks.
ClaimedFiles(blocks) ==
  LET kept == SelectSeq(blocks, LAMBDA b : b.path # "" /\ b.content # "")
  IN  [k \in 1..Len(kept) |->
         [path |-> kept[k].path, content |-> kept[k].content,
          language |-> NormalizeLanguage(IF kept[k].lang = "" THEN "text" ELSE kept[k].lang)]]

\* C23: the parser returns one file for each block with a path and content,
\* with the block's path, content and normalized language, in block order,
\* and nothing for the other blocks; equal paths are kept apart.
C23_ParserExtractsBlocks ==
  calc.fn = "parse" => calc.res = ClaimedFiles(calc.arg)

\* C24: normalization maps js, ts and py to javascript, typescript and
\* python, leaves json, html, css and md as they are, and maps every tag
\* it does not know to 'text', in any letter case.
C24_NormalizeTable ==
  LET l == ToLower(calc.arg)
      stated == CASE l = "js" -> "javascript"
                  [] l = "ts" -> "typescript"
                  [] l = "py" -> "python"
                  [] l \in {"json", "html", "css", "md"} -> l
                  [] l \in {"javascript", "typescript", "python"} -> l
                  [] OTHER -> "text"
  IN  calc.fn = "normalize" => calc.res = stated

\* C25: normalizing the result of a normalization returns that result.
C25_NormalizeIdempotent ==
  calc.fn = "normalize twice" => calc.res = NormalizeLanguage(calc.arg)

\* The stated choice of a project's language from its files.
ClaimedPrimary(files) ==
  LET has(l) == \E k \in 1..Len(files) : files[k].language = l
  IN  IF has("typescript") THEN "typescript"
      ELSE IF has("javascript") THEN "javascript"
      ELSE IF has("python") THEN "python"
      ELSE "javascript"

\* C26: a project is created with the language chosen by priority over its
\* files (typescript, javascript, python, else javascript), and no later
\* step changes the language of a project.
C26_LanguageFixedAtCreation ==
  [][\A id \in Ids :
       /\ (proj[id] = NoProject /\ proj'[id] # NoProject)
          => proj'[id].language = ClaimedPrimary(proj'[id].files)
       /\ proj[id] # NoProject => proj'[id].language = proj[id].language]_vars

\* A project created from main.py alone is still a python project after
\* chats added index.js and main.ts to it.
C26_Witness ==
  \E id \in Ids :
    /\ InListing(id) /\ proj[id].language = "python"
    /\ proj[id].files[1].path = "main.py"
    /\ \E k \in 1..Len(proj[id].files) : proj[id].files[k].language = "typescript"
    /\ \E k \in 1..Len(proj[id].files) : proj[id].files[k].language = "javascript"
    /\ \A s \in Slots : reqs[s].kind = "idle"

\* The timers of the client set by restartProject.
RestartTimers(c) == Len(SelectSeq(c.timers, LAMBDA from : from = "restart"))

\* Fetch k of the client ends in this step: its response is delivered or
\* it rejects.
Ends(k) ==
  /\ k \in 1..Len(client.fetches)
  /\ Len(client'.fetches) < Len(client.fetches)
  /\ client'.fetches = Remove(client.fetches, k)

\* C27: restartProject sets its timer only in the step in which its stop
\* request ends, and sets it whatever the answer to the stop was; the run
\* is sent when the timer fires, not before.
C27_RestartIsStopThenStart ==
  [][/\ (client.id # 0 /\ RestartTimers(client') > RestartTimers(client))
          => \E k \in 1..Len(client.fetches) :
               client.fetches[k].kind = "restart" /\ Ends(k)
     /\ \A k \in 1..Len(client.fetches) :
          (client.fetches[k].kind = "restart" /\ Ends(k))
            => /\ client'.timers = Append(client.timers, "restart")
               /\ \A j \in 1..Len(client'.fetches) : client'.fetches[j].phase # "sent"
                    \/ \E i \in 1..Len(client.fetches) : client.fetches[i] = client'.fetches[j]
     /\ (client.timers # <<>> /\ client'.timers = Tail(client.timers) /\ client.id # 0)
          => /\ client'.fetches = Append(client.fetches, Fetch(client, "run"))
             /\ client'.isRunning]_vars

\* Between the stop and the run of a restart: the stop has ended the
\* project's process and was answered with success, the project is
\* stopped, the timer of the restart is pending, and another client has
\* just deleted the project.
C27_Witness ==
  /\ client.id = 1 /\ ~client.isRunning
  /\ client.timers = <<"restart">> /\ client.fetches = <<>>
  /\ proj[1].status = "stopped" /\ proj[1].port # 0
  /\ procs[proj[1].port].state = "exited" /\ runningProcesses[1] = 0
  /\ last.kind = "delete" /\ ~InListing(1)

\* A run of the project is in progress: a run request that has not returned.
RunInProgress(id) == \E s \in Slots : reqs[s].kind = "run" /\ reqs[s].id = id

\* C28: when a process is registered for a project and no run of it is in
\* progress, the project's port is the PORT given to that process; and a
\* run that returns a port returns the project's port of that moment.
C28_PortOfRegisteredProcess ==
  /\ \A id \in Ids :
       (InListing(id) /\ runningProcesses[id] # 0 /\ ~RunInProgress(id))
         => proj[id].port = runningProcesses[id]
  /\ (last.kind = "run" /\ last.code = 200 /\ InListing(last.id))
       => last.port = proj[last.id].port

\* C29: a stop that resumes after the exit of the process it signaled
\* finds a newer registration of its project: it leaves that registration
\* in the map, and does not leave the newer process running, unregistered,
\* under status 'stopped'.
C29_StopDeletesOwnRegistration ==
  [][\A s \in Slots :
       (reqs[s].kind = "stop" /\ reqs[s].pc = "wait" /\ reqs'[s].pc = "answer"
          /\ runningProcesses[reqs[s].id] \notin {0, reqs[s].proc})
         => LET id == reqs[s].id
                q  == runningProcesses[id]
            IN  /\ runningProcesses'[id] = q
                /\ ~(/\ runningProcesses'[id] = 0
                     /\ procs'[q].state = "running"
                     /\ proj'[id].status = "stopped")]_vars

\* No request is in flight: every handler has returned.
NoRequestInFlight == mq = <<>> /\ \A s \in Slots : reqs[s].kind = "idle"

\* C30: with no request in flight (and, as in SpecMirror, no failed disk
\* write), every tracked file of every listed project has in memory the
\* content the file has on disk.
C30_MemoryMirrorsDisk ==
  NoRequestInFlight
    => \A id \in Ids : InListing(id)
         => \A i \in 1..Len(proj[id].files) :
              LET f == proj[id].files[i]
              IN  disk[DirOf(id, f.path)][NameOf(f.path)] = f.content

\* The chat in slot s answers in this step with success and shouldUpdate =
\* true: it went through createOrUpdateProject, which runs only when the
\* response held files.
ChatAnswersWithProject(s) ==
  /\ reqs[s].kind = "chat" /\ reqs[s].pc # "agent"
  /\ reqs'[s].kind = "idle"
  /\ last'.kind = "chat" /\ last'.code = 200

\* C31: the project a chat returns with shouldUpdate = true is in the
\* listing when the response is produced.
C31_ReturnedProjectIsListed ==
  [][\A s \in Slots : ChatAnswersWithProject(s) => InListing(last.id)']_vars

\* C32: when a run request of the client ends, isRunning is true only if
\* the server answered that run with success; after an error response and
\* after a rejected fetch it is false.
C32_IsRunningOnlyAfterSuccess ==
  [][\A k \in 1..Len(client.fetches) :
       (client.fetches[k].kind = "run" /\ Ends(k) /\ client'.isRunning)
         => (Answered(client.fetches[k]) /\ ResponseOf(client.fetches[k]).code = 200)]_vars

====
